---- MODULE Spec2Model ----
(***************************************************************************)
(* The tag-level state machine of the template parser                      *)
(* (src/src/parse/state/tag.js).                                           *)
(*                                                                         *)
(* The parser object is a record: the template read so far (a sequence of  *)
(* one-character strings), the cursor (0-based, as in the source), the     *)
(* open-element stack (node ids, bottom first), the arena of nodes (node   *)
(* 1 is the synthetic root fragment), the registered meta-tags, the two    *)
(* special-block slots and the pending SyntaxError.  A source offset i is  *)
(* template[i + 1] here.                                                   *)
(***************************************************************************)
EXTENDS Integers, Sequences, FiniteSets, TLC

VARIABLES template, index, stack, nodes, metaTagsSeen, js, css, error,
          readerCalls, dispatched, loop

vars == <<template, index, stack, nodes, metaTagsSeen, js, css, error,
          readerCalls, dispatched, loop>>

\* the number of times the document driver dispatches to a state handler,
\* for each of the three families of templates
MaxDispatch == 4
MaxMetaDispatch == 5
MaxAttrDispatch == 3
MaxSelfDispatch == 4
MaxLoopDispatch == 3

----------------------------------------------------------------------------
\* Values

\* `end: null` of an element that is still open
NoEnd == 0 - 1

\* the `name` of a node that has no such property (Fragment, blocks, Text)
Undefined == <<"undefined">>

Whitespace == {" ", "\n", "\t"}

disallowedContents ==
  {[name |-> <<"l", "i">>,
     contents |-> {<<"l", "i">>}],
    [name |-> <<"d", "t">>,
     contents |-> {<<"d", "t">>,
                   <<"d", "d">>}],
    [name |-> <<"d", "d">>,
     contents |-> {<<"d", "t">>,
                   <<"d", "d">>}],
    [name |-> <<"p">>,
     contents |-> {<<"a", "d", "d", "r", "e", "s", "s">>,
                   <<"a", "r", "t", "i", "c", "l", "e">>,
                   <<"a", "s", "i", "d", "e">>,
                   <<"b", "l", "o", "c", "k", "q", "u", "o", "t", "e">>,
                   <<"d", "i", "v">>,
                   <<"d", "l">>,
                   <<"f", "i", "e", "l", "d", "s", "e", "t">>,
                   <<"f", "o", "o", "t", "e", "r">>,
                   <<"f", "o", "r", "m">>,
                   <<"h", "1">>,
                   <<"h", "2">>,
                   <<"h", "3">>,
                   <<"h", "4">>,
                   <<"h", "5">>,
                   <<"h", "6">>,
                   <<"h", "e", "a", "d", "e", "r">>,
                   <<"h", "g", "r", "o", "u", "p">>,
                   <<"h", "r">>,
                   <<"m", "a", "i", "n">>,
                   <<"m", "e", "n", "u">>,
                   <<"n", "a", "v">>,
                   <<"o", "l">>,
                   <<"p">>,
                   <<"p", "r", "e">>,
                   <<"s", "e", "c", "t", "i", "o", "n">>,
                   <<"t", "a", "b", "l", "e">>,
                   <<"u", "l">>}],
    [name |-> <<"r", "t">>,
     contents |-> {<<"r", "t">>,
                   <<"r", "p">>}],
    [name |-> <<"r", "p">>,
     contents |-> {<<"r", "t">>,
                   <<"r", "p">>}],
    [name |-> <<"o", "p", "t", "g", "r", "o", "u", "p">>,
     contents |-> {<<"o", "p", "t", "g", "r", "o", "u", "p">>}],
    [name |-> <<"o", "p", "t", "i", "o", "n">>,
     contents |-> {<<"o", "p", "t", "i", "o", "n">>,
                   <<"o", "p", "t", "g", "r", "o", "u", "p">>}],
    [name |-> <<"t", "h", "e", "a", "d">>,
     contents |-> {<<"t", "b", "o", "d", "y">>,
                   <<"t", "f", "o", "o", "t">>}],
    [name |-> <<"t", "b", "o", "d", "y">>,
     contents |-> {<<"t", "b", "o", "d", "y">>,
                   <<"t", "f", "o", "o", "t">>}],
    [name |-> <<"t", "f", "o", "o", "t">>,
     contents |-> {<<"t", "b", "o", "d", "y">>}],
    [name |-> <<"t", "r">>,
     contents |-> {<<"t", "r">>,
                   <<"t", "b", "o", "d", "y">>}],
    [name |-> <<"t", "d">>,
     contents |-> {<<"t", "d">>,
                   <<"t", "h">>,
                   <<"t", "r">>}],
    [name |-> <<"t", "h">>,
     contents |-> {<<"t", "d">>,
                   <<"t", "h">>,
                   <<"t", "r">>}]}

voidElementNames ==
  {<<"a", "r", "e", "a">>,
   <<"b", "a", "s", "e">>,
   <<"b", "r">>,
   <<"c", "o", "l">>,
   <<"c", "o", "m", "m", "a", "n", "d">>,
   <<"d", "o", "c", "t", "y", "p", "e">>,
   <<"e", "m", "b", "e", "d">>,
   <<"h", "r">>,
   <<"i", "m", "g">>,
   <<"i", "n", "p", "u", "t">>,
   <<"k", "e", "y", "g", "e", "n">>,
   <<"l", "i", "n", "k">>,
   <<"m", "e", "t", "a">>,
   <<"p", "a", "r", "a", "m">>,
   <<"s", "o", "u", "r", "c", "e">>,
   <<"t", "r", "a", "c", "k">>,
   <<"w", "b", "r">>}

Letters ==
  {"a", "b", "c", "d", "e", "f", "g", "h", "i", "j", "k", "l", "m", "n", "o", "p", "q", "r", "s", "t", "u", "v", "w", "x", "y", "z",
   "A", "B", "C", "D", "E", "F", "G", "H", "I", "J", "K", "L", "M", "N", "O", "P", "Q", "R", "S", "T", "U", "V", "W", "X", "Y", "Z"}

Digits == {"0", "1", "2", "3", "4", "5", "6", "7", "8", "9"}

UpperCase == <<"A", "B", "C", "D", "E", "F", "G", "H", "I", "J", "K", "L", "M",
               "N", "O", "P", "Q", "R", "S", "T", "U", "V", "W", "X", "Y", "Z">>
LowerCase == <<"a", "b", "c", "d", "e", "f", "g", "h", "i", "j", "k", "l", "m",
               "n", "o", "p", "q", "r", "s", "t", "u", "v", "w", "x", "y", "z">>

toLowerCase(str) ==
  [i \in 1..Len(str) |->
     IF \E k \in 1..Len(UpperCase) : UpperCase[k] = str[i]
       THEN LowerCase[CHOOSE k \in 1..Len(UpperCase) : UpperCase[k] = str[i]]
       ELSE str[i]]

\* /^(?:area|base|br|...|wbr)$/i.test( name )
isVoidElementName(name) == toLowerCase(name) \in voidElementNames

SELF == <<":", "S", "e", "l", "f">>

metaTags == {<<":", "W", "i", "n", "d", "o", "w">>}

Script == <<"s", "c", "r", "i", "p", "t">>
Style == <<"s", "t", "y", "l", "e">>

\* specials: tag name -> the parser property that holds the block
specials == {[name |-> Script, property |-> "js"],
             [name |-> Style, property |-> "css"]}

specialsHas(name) == \E s \in specials : s.name = name
specialsGet(name) == CHOOSE s \in specials : s.name = name

disallowedContentsHas(name) == \E d \in disallowedContents : d.name = name
disallowedContentsGet(name) ==
  (CHOOSE d \in disallowedContents : d.name = name).contents

\* /[\s"'=<>\/(backtick)]/
\* the backtick, which a string of this notation cannot hold
Backtick == "backtick"

invalidUnquotedAttributeCharacters ==
  Whitespace \cup {"\"", "'", "=", "<", ">", "/", Backtick}

\* \w
WordCharacters == Letters \cup Digits \cup {"_"}

\* /^\!?[a-zA-Z]{1,}:?[a-zA-Z0-9\-]*/ : the pattern is not anchored at its
\* end, so it accepts every name that starts with an optional "!" and a letter
validTagName(name) ==
  LET rest == IF Len(name) > 0 /\ name[1] = "!" THEN Tail(name) ELSE name
  IN  Len(rest) > 0 /\ rest[1] \in Letters

NoError == [raised |-> FALSE, message |-> "", index |-> NoEnd]

NoBlock == [present |-> FALSE, start |-> NoEnd, end |-> NoEnd,
            attributes |-> <<>>, content |-> <<>>]

NoExpression == [type |-> "none", start |-> NoEnd, end |-> NoEnd, name |-> <<>>]

----------------------------------------------------------------------------
\* The cursor primitives the tag handler calls on the parser

\* parser.error( message, index = parser.index ): the first error raised
\* aborts the parse, so a later one never replaces it
Error(p, message, at) ==
  IF p.error.raised THEN p
  ELSE [p EXCEPT !.error = [raised |-> TRUE, message |-> message, index |-> at]]

ErrorHere(p, message) == Error(p, message, p.index)

\* parser.match( str )
match(p, str) ==
  /\ p.index + Len(str) <= Len(p.template)
  /\ SubSeq(p.template, p.index + 1, p.index + Len(str)) = str

\* parser.eat( str ): the cursor after the call (match gives its result)
eat(p, str) == IF match(p, str) THEN [p EXCEPT !.index = @ + Len(str)] ELSE p

\* parser.eat( str, true )
eatRequired(p, str, message) ==
  IF match(p, str) THEN [p EXCEPT !.index = @ + Len(str)]
  ELSE ErrorHere(p, message)

RECURSIVE scanWhile(_, _, _)
scanWhile(t, i, chars) ==
  IF i < Len(t) /\ t[i + 1] \in chars THEN scanWhile(t, i + 1, chars) ELSE i

RECURSIVE scanUntil(_, _, _)
scanUntil(t, i, stops) ==
  IF i < Len(t) /\ t[i + 1] \notin stops THEN scanUntil(t, i + 1, stops) ELSE i

RECURSIVE scanUntilSeq(_, _, _)
scanUntilSeq(t, i, str) ==
  IF i >= Len(t) THEN Len(t)
  ELSE IF i + Len(str) <= Len(t) /\ SubSeq(t, i + 1, i + Len(str)) = str THEN i
  ELSE scanUntilSeq(t, i + 1, str)

\* parser.allowWhitespace()
allowWhitespace(p) ==
  IF p.error.raised THEN p
  ELSE [p EXCEPT !.index = scanWhile(p.template, p.index, Whitespace)]

\* parser.readUntil( /[stops]/ ): the cursor after the call; the text read is
\* SubSeq(template, old index + 1, new index)
readUntil(p, stops) ==
  IF p.index >= Len(p.template) THEN ErrorHere(p, "Unexpected end of input")
  ELSE [p EXCEPT !.index = scanUntil(p.template, p.index, stops)]

\* parser.readUntil( /str/ )
readUntilSeq(p, str) ==
  IF p.index >= Len(p.template) THEN ErrorHere(p, "Unexpected end of input")
  ELSE [p EXCEPT !.index = scanUntilSeq(p.template, p.index, str)]

textRead(p, q) == SubSeq(p.template, p.index + 1, q.index)

\* parser.current()
current(p) == p.stack[Len(p.stack)]

\* parser.stack.pop()
stackPop(p) == [p EXCEPT !.stack = SubSeq(@, 1, Len(@) - 1)]

\* pushChild putting the child before the children the parent already has
pushChildFirst(p, parent, child) ==
  [p EXCEPT !.nodes[parent].children = <<child>> \o @]

\* node.children.push( child )
pushChild(p, parent, child) ==
  [p EXCEPT !.nodes[parent].children = Append(@, child)]

Node(type, name, start, end, data, attributes) ==
  [type |-> type, name |-> name, start |-> start, end |-> end,
   data |-> data, attributes |-> attributes, children |-> <<>>]

----------------------------------------------------------------------------
\* stripWhitespace

RECURSIVE trimStart(_)
trimStart(str) ==
  IF Len(str) > 0 /\ str[1] \in Whitespace THEN trimStart(Tail(str)) ELSE str

RECURSIVE trimEnd(_)
trimEnd(str) ==
  IF Len(str) > 0 /\ str[Len(str)] \in Whitespace
    THEN trimEnd(SubSeq(str, 1, Len(str) - 1))
    ELSE str

stripWhitespace(p, element) ==
  LET children == p.nodes[element].children
  IN  IF Len(children) = 0 THEN p
      ELSE
        LET firstChild == children[1]
            lastChild == children[Len(children)]
            p1 == IF p.nodes[firstChild].type = "Text"
                    THEN LET data == trimStart(p.nodes[firstChild].data)
                             q == [p EXCEPT !.nodes[firstChild].data = data]
                         IN  IF data = <<>>
                               THEN [q EXCEPT !.nodes[element].children = Tail(@)]
                               ELSE q
                    ELSE p
        IN  IF p1.nodes[lastChild].type = "Text"
              THEN LET data == trimEnd(p1.nodes[lastChild].data)
                       q == [p1 EXCEPT !.nodes[lastChild].data = data]
                   IN  IF data = <<>>
                         THEN [q EXCEPT !.nodes[element].children =
                                 IF Len(@) = 0 THEN @ ELSE SubSeq(@, 1, Len(@) - 1)]
                         ELSE q
              ELSE p1

----------------------------------------------------------------------------
\* The external readers, by the interface the tag handler uses

\* readExpression( parser ): an identifier expression and the cursor past it
readExpression(p) ==
  LET q == allowWhitespace(p)
      e == scanWhile(q.template, q.index, WordCharacters)
  IN  IF e = q.index
        THEN [p |-> ErrorHere(q, "Unexpected token"), expression |-> NoExpression]
        ELSE [p |-> [q EXCEPT !.index = e],
              expression |-> [type |-> "Identifier", start |-> q.index, end |-> e,
                              name |-> SubSeq(q.template, q.index + 1, e)]]

\* decodeCharacterReferences( data ), for the references &lt; &gt; and &amp;
RECURSIVE decodeCharacterReferences(_)
decodeCharacterReferences(data) ==
  IF data = <<>> THEN <<>>
  ELSE IF Len(data) >= 4 /\ SubSeq(data, 1, 4) = <<"&", "l", "t", ";">>
    THEN <<"<">> \o decodeCharacterReferences(SubSeq(data, 5, Len(data)))
  ELSE IF Len(data) >= 4 /\ SubSeq(data, 1, 4) = <<"&", "g", "t", ";">>
    THEN <<">">> \o decodeCharacterReferences(SubSeq(data, 5, Len(data)))
  ELSE IF Len(data) >= 5 /\ SubSeq(data, 1, 5) = <<"&", "a", "m", "p", ";">>
    THEN <<"&">> \o decodeCharacterReferences(SubSeq(data, 6, Len(data)))
  ELSE <<data[1]>> \o decodeCharacterReferences(Tail(data))

\* the value of an attribute: `true`, or a sequence of chunks
ValueTrue == [isTrue |-> TRUE, chunks |-> <<>>]
ValueChunks(chunks) == [isTrue |-> FALSE, chunks |-> chunks]

Attribute(start, end, type, name, value) ==
  [start |-> start, end |-> end, type |-> type, name |-> name, value |-> value]

NoAttribute == Attribute(NoEnd, NoEnd, "none", <<>>, ValueTrue)

\* readEventHandlerDirective / readBindingDirective: a quoted directive value
readDirectiveValue(p) ==
  LET quoteMark == IF match(p, <<"'">>) THEN "'"
                   ELSE IF match(p, <<"\"">>) THEN "\"" ELSE ""
  IN  IF quoteMark = "" THEN ErrorHere(p, "Expected quote mark")
      ELSE LET q == [p EXCEPT !.index = @ + 1]
               e == scanUntil(q.template, q.index, {quoteMark})
           IN  IF e >= Len(q.template)
                 THEN ErrorHere([q EXCEPT !.index = e], "Unexpected end of input")
                 ELSE [q EXCEPT !.index = e + 1]

readEventHandlerDirective(p, start, name) ==
  LET q == readDirectiveValue(p)
  IN  [p |-> q,
       attribute |-> Attribute(start, q.index, "EventHandler", name, ValueTrue)]

readBindingDirective(p, start, name) ==
  LET q == IF match(p, <<"=">>) THEN readDirectiveValue(eat(p, <<"=">>)) ELSE p
  IN  [p |-> q,
       attribute |-> Attribute(start, q.index, "Binding", name, ValueTrue)]

\* readScript / readStyle: the raw content up to the closing tag of the block
readSpecial(p, start, attributes, name) ==
  LET closing == <<"<", "/">> \o name \o <<">">>
      e == scanUntilSeq(p.template, p.index, closing)
  IN  IF e >= Len(p.template)
        THEN [p |-> ErrorHere(p, "special block must have a closing tag"),
              block |-> NoBlock]
        ELSE [p |-> [p EXCEPT !.index = e + Len(closing)],
              block |-> [present |-> TRUE, start |-> start,
                         end |-> e + Len(closing), attributes |-> attributes,
                         content |-> SubSeq(p.template, p.index + 1, e)]]

----------------------------------------------------------------------------
\* readAttributeValue, getShorthandValue, readAttribute

Chunk(type, start, end, data, expression) ==
  [type |-> type, start |-> start, end |-> end, data |-> data,
   expression |-> expression]

TextChunk(start) == Chunk("Text", start, NoEnd, <<>>, NoExpression)

decodeChunks(chunks) ==
  [i \in 1..Len(chunks) |->
     IF chunks[i].type = "Text"
       THEN [chunks[i] EXCEPT !.data = decodeCharacterReferences(@)]
       ELSE chunks[i]]

\* done( char ): the quote mark, or an invalid unquoted attribute character
done(quoteMark, char) ==
  IF quoteMark # "" THEN char = quoteMark
  ELSE char \in invalidUnquotedAttributeCharacters

\* readAttributeValueLoop pushing the current chunk whether or not it has data
RECURSIVE readAttributeValueLoopKeepsEmpty(_, _, _, _)
readAttributeValueLoopKeepsEmpty(p, quoteMark, currentChunk, chunks) ==
  IF ~(p.index < Len(p.template))
    THEN [p |-> ErrorHere(p, "Unexpected end of input"), chunks |-> <<>>]
  ELSE IF match(p, <<"{", "{">>)
    THEN LET chunks1 == Append(chunks, [currentChunk EXCEPT !.end = p.index])
             r == readExpression(eat(p, <<"{", "{">>))
             p2 == allowWhitespace(r.p)
         IN  IF p2.error.raised THEN [p |-> p2, chunks |-> <<>>]
             ELSE IF ~match(p2, <<"}", "}">>)
               THEN [p |-> ErrorHere(p2, "Expected }}"), chunks |-> <<>>]
             ELSE LET p3 == eat(p2, <<"}", "}">>)
                  IN  readAttributeValueLoopKeepsEmpty(
                        p3, quoteMark, TextChunk(p3.index),
                        Append(chunks1, Chunk("MustacheTag", p.index, p3.index,
                                              <<>>, r.expression)))
  ELSE IF done(quoteMark, p.template[p.index + 1])
    THEN LET closed == [currentChunk EXCEPT !.end = p.index]
             p1 == IF quoteMark # "" THEN [p EXCEPT !.index = @ + 1] ELSE p
         IN  [p |-> p1, chunks |-> decodeChunks(Append(chunks, closed))]
  ELSE readAttributeValueLoopKeepsEmpty(
         [p EXCEPT !.index = @ + 1], quoteMark,
         [currentChunk EXCEPT !.data = Append(@, p.template[p.index + 1])],
         chunks)

RECURSIVE readAttributeValueLoop(_, _, _, _)
readAttributeValueLoop(p, quoteMark, currentChunk, chunks) ==
  IF ~(p.index < Len(p.template))
    THEN [p |-> ErrorHere(p, "Unexpected end of input"), chunks |-> <<>>]
  ELSE IF match(p, <<"{", "{">>)
    THEN LET chunks1 == IF currentChunk.data # <<>>
                          THEN Append(chunks, [currentChunk EXCEPT !.end = p.index])
                          ELSE chunks
             r == readExpression(eat(p, <<"{", "{">>))
             p2 == allowWhitespace(r.p)
         IN  IF p2.error.raised THEN [p |-> p2, chunks |-> <<>>]
             ELSE IF ~match(p2, <<"}", "}">>)
               THEN [p |-> ErrorHere(p2, "Expected }}"), chunks |-> <<>>]
             ELSE LET p3 == eat(p2, <<"}", "}">>)
                  IN  readAttributeValueLoop(
                        p3, quoteMark, TextChunk(p3.index),
                        Append(chunks1, Chunk("MustacheTag", p.index, p3.index,
                                              <<>>, r.expression)))
  ELSE IF done(quoteMark, p.template[p.index + 1])
    THEN LET closed == [currentChunk EXCEPT !.end = p.index]
             p1 == IF quoteMark # "" THEN [p EXCEPT !.index = @ + 1] ELSE p
             chunks1 == IF closed.data # <<>> THEN Append(chunks, closed) ELSE chunks
         IN  [p |-> p1, chunks |-> decodeChunks(chunks1)]
  ELSE readAttributeValueLoop(
         [p EXCEPT !.index = @ + 1], quoteMark,
         [currentChunk EXCEPT !.data = Append(@, p.template[p.index + 1])],
         chunks)

readAttributeValue(p) ==
  LET p1 == eat(p, <<"'">>)
      p2 == eat(p1, <<"\"">>)
      quoteMark == IF match(p1, <<"\"">>) THEN "\""
                   ELSE IF match(p, <<"'">>) THEN "'" ELSE ""
  IN  readAttributeValueLoop(p2, quoteMark, TextChunk(p2.index), <<>>)

\* getShorthandValue building the chunk that readAttributeValue builds
getShorthandValueMustache(start, name) ==
  LET end == start + Len(name)
  IN  <<Chunk("MustacheTag", start, end, <<>>,
              [type |-> "Identifier", start |-> start, end |-> end,
               name |-> name])>>

getShorthandValue(start, name) ==
  LET end == start + Len(name)
  IN  <<Chunk("AttributeShorthand", start, end, <<>>,
              [type |-> "Identifier", start |-> start, end |-> end,
               name |-> name])>>

hasPrefix(str, prefix) ==
  Len(str) >= Len(prefix) /\ SubSeq(str, 1, Len(prefix)) = prefix

slice(str, n) == SubSeq(str, n + 1, Len(str))

\* /^:\w+$/.test( name )
isShorthand(name) ==
  /\ Len(name) >= 2
  /\ name[1] = ":"
  /\ \A i \in 2..Len(name) : name[i] \in WordCharacters

readAttribute(p, uniqueNames) ==
  LET start == p.index
      none(q) == [p |-> q, found |-> FALSE, attribute |-> NoAttribute,
                  uniqueNames |-> uniqueNames]
      p1 == readUntil(p, Whitespace \cup {"=", "/", ">"})
      name == textRead(p, p1)
      some(r) == [p |-> r.p, found |-> ~r.p.error.raised,
                  attribute |-> r.attribute,
                  uniqueNames |-> uniqueNames \cup {name}]
  IN  IF p1.error.raised THEN none(p1)
      ELSE IF name = <<>> THEN none(p1)
      ELSE IF name \in uniqueNames
        THEN none(Error(p1, "Attributes need to be unique", start))
      ELSE
        LET p2 == allowWhitespace(p1)
        IN  IF hasPrefix(name, <<"o", "n", ":">>)
              THEN LET p3 == eatRequired(p2, <<"=">>, "Expected =")
                   IN  IF p3.error.raised THEN none(p3)
                       ELSE some(readEventHandlerDirective(p3, start, slice(name, 3)))
            ELSE IF hasPrefix(name, <<"b", "i", "n", "d", ":">>)
              THEN some(readBindingDirective(p2, start, slice(name, 5)))
            ELSE IF hasPrefix(name, <<"r", "e", "f", ":">>)
              THEN some([p |-> p2,
                         attribute |-> Attribute(start, p2.index, "Ref",
                                                 slice(name, 4), ValueTrue)])
            ELSE IF isShorthand(name)
              THEN some([p |-> p2,
                         attribute |->
                           Attribute(start, p2.index, "Attribute", slice(name, 1),
                                     ValueChunks(getShorthandValue(start + 1,
                                                                   slice(name, 1))))])
            ELSE IF match(p2, <<"=">>)
              THEN LET r == readAttributeValue(eat(p2, <<"=">>))
                   IN  some([p |-> r.p,
                             attribute |-> Attribute(start, r.p.index, "Attribute",
                                                     name, ValueChunks(r.chunks))])
            ELSE some([p |-> p2,
                       attribute |-> Attribute(start, p2.index, "Attribute", name,
                                               ValueTrue)])

\* the loop `while ( attribute = readAttribute( parser, uniqueNames ) )`
RECURSIVE readAttributes(_, _, _)
readAttributes(p, attributes, uniqueNames) ==
  LET r == readAttribute(p, uniqueNames)
  IN  IF ~r.found THEN [p |-> r.p, attributes |-> attributes]
      ELSE readAttributes(allowWhitespace(r.p), Append(attributes, r.attribute),
                          r.uniqueNames)

----------------------------------------------------------------------------
\* readTagName

\* legalSelf searching the stack for an if-block only
legalSelfIfOnly(p) ==
  \E i \in 1..Len(p.stack) : p.nodes[p.stack[i]].type \in {"IfBlock"}

\* the stack search for an enclosing if-block or each-block
legalSelf(p) ==
  \E i \in 1..Len(p.stack) : p.nodes[p.stack[i]].type \in {"IfBlock", "EachBlock"}

readTagName(p) ==
  LET start == p.index
  IN  IF match(p, SELF)
        THEN LET q == eat(p, SELF)
             IN  IF ~legalSelf(q)
                   THEN [p |-> Error(q, "<:Self> components can only exist inside if-blocks or each-blocks", start),
                         name |-> SELF]
                   ELSE [p |-> q, name |-> SELF]
        ELSE LET q == readUntil(p, Whitespace \cup {"/", ">"})
                 name == textRead(p, q)
             IN  IF q.error.raised THEN [p |-> q, name |-> <<>>]
                 ELSE IF name \in metaTags THEN [p |-> q, name |-> name]
                 ELSE IF ~validTagName(name)
                   THEN [p |-> Error(q, "Expected valid tag name", start),
                         name |-> name]
                 ELSE [p |-> q, name |-> name]

----------------------------------------------------------------------------
\* tag

\* `<!--` ... `-->`
tagComment(p, start) ==
  LET q == readUntilSeq(p, <<"-", "-", ">">>)
      data == textRead(p, q)
      q1 == eat(q, <<"-", "-", ">">>)
      id == Len(q1.nodes) + 1
  IN  IF q.error.raised THEN q
      ELSE pushChild(
             [q1 EXCEPT !.nodes = Append(@, Node("Comment", Undefined, start,
                                                 q1.index, data, <<>>))],
             current(q1), id)

\* tagMetaTag that never registers the name
tagMetaTagForgets(p, name, isClosingTag, start) ==
  IF name \notin metaTags THEN p
  ELSE IF name \in p.metaTags
    THEN IF isClosingTag /\ Len(p.nodes[current(p)].children) > 0
           THEN Error(p, "<:Window> cannot have children",
                      p.nodes[p.nodes[current(p)].children[1]].start)
           ELSE Error(p, "A component can only have one <:Window> tag", start)
  ELSE IF Len(p.stack) > 1
    THEN Error(p, "<:Window> tags cannot be inside elements or blocks", start)
  ELSE p

\* tagMetaTag that checks opening tags only
tagMetaTagOpeningOnly(p, name, isClosingTag, start) ==
  IF name \notin metaTags \/ isClosingTag THEN p
  ELSE IF name \in p.metaTags
    THEN Error(p, "A component can only have one <:Window> tag", start)
  ELSE LET q == [p EXCEPT !.metaTags = @ \cup {name}]
       IN  IF Len(q.stack) > 1
             THEN Error(q, "<:Window> tags cannot be inside elements or blocks", start)
             ELSE q

\* tagMetaTag letting through the closing tag of a registered name when the
\* current node has no children
tagMetaTagAllowsClose(p, name, isClosingTag, start) ==
  IF name \notin metaTags THEN p
  ELSE IF name \in p.metaTags
    THEN IF isClosingTag
           THEN IF Len(p.nodes[current(p)].children) > 0
                  THEN Error(p, "<:Window> cannot have children",
                             p.nodes[p.nodes[current(p)].children[1]].start)
                  ELSE p
           ELSE Error(p, "A component can only have one <:Window> tag", start)
  ELSE LET q == [p EXCEPT !.metaTags = @ \cup {name}]
       IN  IF Len(q.stack) > 1
             THEN Error(q, "<:Window> tags cannot be inside elements or blocks", start)
             ELSE q

\* the singleton meta-tags
tagMetaTag(p, name, isClosingTag, start) ==
  IF name \notin metaTags THEN p
  ELSE IF name \in p.metaTags
    THEN IF isClosingTag /\ Len(p.nodes[current(p)].children) > 0
           THEN Error(p, "<:Window> cannot have children",
                      p.nodes[p.nodes[current(p)].children[1]].start)
           ELSE Error(p, "A component can only have one <:Window> tag", start)
  ELSE LET q == [p EXCEPT !.metaTags = @ \cup {name}]
       IN  IF Len(q.stack) > 1
             THEN Error(q, "<:Window> tags cannot be inside elements or blocks", start)
             ELSE q

\* closeWalk popping the entry before it looks at its type
RECURSIVE closeWalkPopsFirst(_, _, _, _)
closeWalkPopsFirst(p, name, parent, start) ==
  IF p.nodes[parent].name # name
    THEN LET q == stackPop([p EXCEPT !.nodes[parent].end = start])
         IN  IF p.nodes[parent].type # "Element"
               THEN [p |-> Error(q, "attempted to close an element that was not open", start),
                     parent |-> parent]
               ELSE closeWalkPopsFirst(q, name, current(q), start)
    ELSE [p |-> p, parent |-> parent]

\* closeWalk reporting the unopened element at the cursor
RECURSIVE closeWalkReportsAtCursor(_, _, _, _)
closeWalkReportsAtCursor(p, name, parent, start) ==
  IF p.nodes[parent].name # name
    THEN IF p.nodes[parent].type # "Element"
           THEN [p |-> ErrorHere(p, "attempted to close an element that was not open"),
                 parent |-> parent]
           ELSE LET q == stackPop([p EXCEPT !.nodes[parent].end = start])
                IN  closeWalkReportsAtCursor(q, name, current(q), start)
    ELSE [p |-> p, parent |-> parent]

\* close any elements that don't have their own closing tags
RECURSIVE closeWalk(_, _, _, _)
closeWalk(p, name, parent, start) ==
  IF p.nodes[parent].name # name
    THEN IF p.nodes[parent].type # "Element"
           THEN [p |-> Error(p, "attempted to close an element that was not open", start),
                 parent |-> parent]
           ELSE LET q == stackPop([p EXCEPT !.nodes[parent].end = start])
                IN  closeWalk(q, name, current(q), start)
    ELSE [p |-> p, parent |-> parent]

\* tagClose leaving the matched element on the stack
tagCloseKeepsMatch(p, name, parent, start) ==
  IF isVoidElementName(name)
    THEN Error(p, "void element cannot have children, or a closing tag", start)
  ELSE IF ~match(p, <<">">>) THEN ErrorHere(p, "Expected '>'")
  ELSE LET w == closeWalk(eat(p, <<">">>), name, parent, start)
       IN  IF w.p.error.raised THEN w.p
           ELSE LET q == stripWhitespace(w.p, w.parent)
                IN  [q EXCEPT !.nodes[w.parent].end = q.index]

tagClose(p, name, parent, start) ==
  IF isVoidElementName(name)
    THEN Error(p, "void element cannot have children, or a closing tag", start)
  ELSE IF ~match(p, <<">">>) THEN ErrorHere(p, "Expected '>'")
  ELSE LET w == closeWalk(eat(p, <<">">>), name, parent, start)
       IN  IF w.p.error.raised THEN w.p
           ELSE LET q == stripWhitespace(w.p, w.parent)
                IN  stackPop([q EXCEPT !.nodes[w.parent].end = q.index])

\* tagImpliedClose closing the parent and leaving it on the stack
tagImpliedCloseKeepsParent(p, name, parent, start) ==
  IF /\ disallowedContentsHas(p.nodes[parent].name)
     /\ name \in disallowedContentsGet(p.nodes[parent].name)
    THEN LET q == stripWhitespace(p, parent)
         IN  [q EXCEPT !.nodes[parent].end = start]
    ELSE p

\* tagImpliedClose ending the parent at the cursor
tagImpliedCloseEndsAtCursor(p, name, parent, start) ==
  IF /\ disallowedContentsHas(p.nodes[parent].name)
     /\ name \in disallowedContentsGet(p.nodes[parent].name)
    THEN LET q == stripWhitespace(p, parent)
         IN  stackPop([q EXCEPT !.nodes[parent].end = q.index])
    ELSE p

\* can this be a child of the parent element, or does it implicitly close it
tagImpliedClose(p, name, parent, start) ==
  IF /\ disallowedContentsHas(p.nodes[parent].name)
     /\ name \in disallowedContentsGet(p.nodes[parent].name)
    THEN LET q == stripWhitespace(p, parent)
         IN  stackPop([q EXCEPT !.nodes[parent].end = start])
    ELSE p

\* tagSpecial reading a block whose slot is already populated
tagSpecialOverwrites(p, name, attributes, start) ==
  LET special == specialsGet(name)
      q == eatRequired(p, <<">">>, "Expected >")
      r == readSpecial(q, start, attributes, name)
  IN  IF q.error.raised THEN q
      ELSE IF r.p.error.raised
        THEN [r.p EXCEPT !.readerCalls[special.property] = @ + 1]
      ELSE [r.p EXCEPT ![special.property] = r.block,
                       !.readerCalls[special.property] = @ + 1]

\* tagSpecial reporting the duplicate at the start of the first block
tagSpecialReportsFirst(p, name, attributes, start) ==
  LET special == specialsGet(name)
  IN  IF p[special.property].present
        THEN Error([p EXCEPT !.index = start],
                   IF name = Script
                     THEN "You can only have one top-level <script> tag per component"
                     ELSE "You can only have one top-level <style> tag per component",
                   p[special.property].start)
        ELSE LET q == eatRequired(p, <<">">>, "Expected >")
                 r == readSpecial(q, start, attributes, name)
             IN  IF q.error.raised THEN q
                 ELSE IF r.p.error.raised
                   THEN [r.p EXCEPT !.readerCalls[special.property] = @ + 1]
                 ELSE [r.p EXCEPT ![special.property] = r.block,
                                  !.readerCalls[special.property] = @ + 1]

\* top-level <script> and <style>
tagSpecial(p, name, attributes, start) ==
  LET special == specialsGet(name)
  IN  IF p[special.property].present
        THEN ErrorHere([p EXCEPT !.index = start],
                       IF name = Script
                         THEN "You can only have one top-level <script> tag per component"
                         ELSE "You can only have one top-level <style> tag per component")
        ELSE LET q == eatRequired(p, <<">">>, "Expected >")
                 r == readSpecial(q, start, attributes, name)
             IN  IF q.error.raised THEN q
                 ELSE IF r.p.error.raised
                   THEN [r.p EXCEPT !.readerCalls[special.property] = @ + 1]
                 ELSE [r.p EXCEPT ![special.property] = r.block,
                                  !.readerCalls[special.property] = @ + 1]

\* tagElement taking only an explicit "/" for self-closing
tagElementPushesVoid(p, name, attributes, start) ==
  LET element == Len(p.nodes) + 1
      p1 == pushChild(
              [p EXCEPT !.nodes = Append(@, Node("Element", name, start, NoEnd,
                                                 <<>>, attributes))],
              current(p), element)
      selfClosing == match(p1, <<"/">>)
      p2 == eatRequired(eat(p1, <<"/">>), <<">">>, "Expected >")
  IN  IF p2.error.raised THEN p2
      ELSE IF selfClosing THEN [p2 EXCEPT !.nodes[element].end = p2.index]
      ELSE [p2 EXCEPT !.stack = Append(@, element)]

\* tagElement leaving the end of a self-closing element unset
tagElementLeavesEnd(p, name, attributes, start) ==
  LET element == Len(p.nodes) + 1
      p1 == pushChild(
              [p EXCEPT !.nodes = Append(@, Node("Element", name, start, NoEnd,
                                                 <<>>, attributes))],
              current(p), element)
      selfClosing == match(p1, <<"/">>) \/ isVoidElementName(name)
      p2 == eatRequired(eat(p1, <<"/">>), <<">">>, "Expected >")
  IN  IF p2.error.raised THEN p2
      ELSE IF selfClosing THEN p2
      ELSE [p2 EXCEPT !.stack = Append(@, element)]

tagElement(p, name, attributes, start) ==
  LET element == Len(p.nodes) + 1
      p1 == pushChild(
              [p EXCEPT !.nodes = Append(@, Node("Element", name, start, NoEnd,
                                                 <<>>, attributes))],
              current(p), element)
      selfClosing == match(p1, <<"/">>) \/ isVoidElementName(name)
      p2 == eatRequired(eat(p1, <<"/">>), <<">">>, "Expected >")
  IN  IF p2.error.raised THEN p2
      ELSE IF selfClosing THEN [p2 EXCEPT !.nodes[element].end = p2.index]
      ELSE [p2 EXCEPT !.stack = Append(@, element)]

tagOpen(p, name, start) ==
  LET r == readAttributes(p, <<>>, {})
      q == allowWhitespace(r.p)
  IN  IF q.error.raised THEN q
      ELSE IF specialsHas(name) /\ Len(q.stack) = 1
        THEN tagSpecial(q, name, r.attributes, start)
      ELSE tagElement(q, name, r.attributes, start)

tag(p) ==
  LET start == p.index
      p0 == [p EXCEPT !.index = @ + 1]
      parent == current(p0)
  IN  IF match(p0, <<"!", "-", "-">>)
        THEN tagComment(eat(p0, <<"!", "-", "-">>), start)
      ELSE
        LET isClosingTag == match(p0, <<"/">>)
            rn == readTagName(eat(p0, <<"/">>))
            p1 == tagMetaTag(rn.p, rn.name, isClosingTag, start)
            p2 == allowWhitespace(p1)
        IN  IF rn.p.error.raised THEN rn.p
            ELSE IF p1.error.raised THEN p1
            ELSE IF isClosingTag THEN tagClose(p2, rn.name, parent, start)
            ELSE tagOpen(tagImpliedClose(p2, rn.name, parent, start), rn.name, start)

----------------------------------------------------------------------------
\* The loops of tag, one iteration at a time

\* tag up to its first loop: the walk of a closing tag, or the attribute loop
\* of an opening tag; pc is "idle" when the call ends before either
tagBegin(p) ==
  LET start == p.index
      p0 == [p EXCEPT !.index = @ + 1]
      parent == current(p0)
      at(q, pc, name) == [p |-> q, pc |-> pc, name |-> name, start |-> start]
  IN  IF match(p0, <<"!", "-", "-">>)
        THEN at(tagComment(eat(p0, <<"!", "-", "-">>), start), "idle", <<>>)
      ELSE
        LET isClosingTag == match(p0, <<"/">>)
            rn == readTagName(eat(p0, <<"/">>))
            p1 == tagMetaTag(rn.p, rn.name, isClosingTag, start)
            p2 == allowWhitespace(p1)
        IN  IF rn.p.error.raised THEN at(rn.p, "idle", rn.name)
            ELSE IF p1.error.raised THEN at(p1, "idle", rn.name)
            ELSE IF isClosingTag
              THEN IF isVoidElementName(rn.name)
                     THEN at(Error(p2, "void element cannot have children, or a closing tag", start),
                             "idle", rn.name)
                   ELSE IF ~match(p2, <<">">>)
                     THEN at(ErrorHere(p2, "Expected '>'"), "idle", rn.name)
                   ELSE at(eat(p2, <<">">>), "walk", rn.name)
            ELSE at(tagImpliedClose(p2, rn.name, parent, start), "attributes", rn.name)

\* closeWalkStep leaving the entry it ends on the stack
closeWalkStepKeepsEntry(p, name, start) ==
  LET parent == current(p)
  IN  IF p.nodes[parent].name # name
        THEN IF p.nodes[parent].type # "Element"
               THEN [p |-> Error(p, "attempted to close an element that was not open", start),
                     again |-> FALSE]
               ELSE [p |-> [p EXCEPT !.nodes[parent].end = start], again |-> TRUE]
        ELSE LET q == stripWhitespace(p, parent)
             IN  [p |-> stackPop([q EXCEPT !.nodes[parent].end = q.index]),
                  again |-> FALSE]

\* one test of `while ( parent.name !== name )`: an iteration of the walk, or
\* the end of the loop and of the call
closeWalkStep(p, name, start) ==
  LET parent == current(p)
  IN  IF p.nodes[parent].name # name
        THEN IF p.nodes[parent].type # "Element"
               THEN [p |-> Error(p, "attempted to close an element that was not open", start),
                     again |-> FALSE]
               ELSE [p |-> stackPop([p EXCEPT !.nodes[parent].end = start]),
                     again |-> TRUE]
        ELSE LET q == stripWhitespace(p, parent)
             IN  [p |-> stackPop([q EXCEPT !.nodes[parent].end = q.index]),
                  again |-> FALSE]

\* the next attribute is a plain one with a value: readAttribute reaches its
\* call of readAttributeValue
readsValue(p, uniqueNames) ==
  \E p1 \in {readUntil(p, Whitespace \cup {"=", "/", ">"})} :
    \E name \in {textRead(p, p1)} :
      /\ ~p1.error.raised
      /\ name # <<>>
      /\ name \notin uniqueNames
      /\ ~hasPrefix(name, <<"o", "n", ":">>)
      /\ ~hasPrefix(name, <<"b", "i", "n", "d", ":">>)
      /\ ~hasPrefix(name, <<"r", "e", "f", ":">>)
      /\ ~isShorthand(name)
      /\ match(allowWhitespace(p1), <<"=">>)

\* readAttribute up to the loop of readAttributeValue
readValueBegin(p) ==
  LET begin(p1) ==
        LET p3 == eat(allowWhitespace(p1), <<"=">>)
            p4 == eat(p3, <<"'">>)
            p5 == eat(p4, <<"\"">>)
        IN  [p |-> p5,
             name |-> textRead(p, p1),
             quoteMark |-> IF match(p4, <<"\"">>) THEN "\""
                           ELSE IF match(p3, <<"'">>) THEN "'" ELSE ""]
  IN  \* the name is read once
      CHOOSE b \in {begin(p1) : p1 \in {readUntil(p, Whitespace \cup {"=", "/", ">"})}} :
        TRUE

\* one test of `while ( parser.index < parser.template.length )`: an
\* iteration of the loop of readAttributeValue, or its return or error
readAttributeValueStep(p, quoteMark, currentChunk, chunks) ==
  LET out(q, again, chunk, all) ==
        [p |-> q, again |-> again, currentChunk |-> chunk, chunks |-> all]
  IN  IF ~(p.index < Len(p.template))
        THEN out(ErrorHere(p, "Unexpected end of input"), FALSE, currentChunk, <<>>)
      ELSE IF match(p, <<"{", "{">>)
        THEN LET chunks1 == IF currentChunk.data # <<>>
                              THEN Append(chunks, [currentChunk EXCEPT !.end = p.index])
                              ELSE chunks
                 mustache(r) ==
                   LET p2 == allowWhitespace(r.p)
                       p3 == eat(p2, <<"}", "}">>)
                   IN  IF p2.error.raised THEN out(p2, FALSE, currentChunk, <<>>)
                       ELSE IF ~match(p2, <<"}", "}">>)
                         THEN out(ErrorHere(p2, "Expected }}"), FALSE, currentChunk, <<>>)
                       ELSE out(p3, TRUE, TextChunk(p3.index),
                                Append(chunks1, Chunk("MustacheTag", p.index, p3.index,
                                                      <<>>, r.expression)))
             IN  \* readExpression is called once
                 CHOOSE s \in {mustache(r) : r \in {readExpression(eat(p, <<"{", "{">>))}} :
                   TRUE
      ELSE IF done(quoteMark, p.template[p.index + 1])
        THEN LET closed == [currentChunk EXCEPT !.end = p.index]
                 p1 == IF quoteMark # "" THEN [p EXCEPT !.index = @ + 1] ELSE p
                 chunks1 == IF closed.data # <<>> THEN Append(chunks, closed) ELSE chunks
             IN  out(p1, FALSE, closed, decodeChunks(chunks1))
      ELSE out([p EXCEPT !.index = @ + 1], TRUE,
               [currentChunk EXCEPT !.data = Append(@, p.template[p.index + 1])],
               chunks)

\* tag after its attribute loop
tagOpenEnd(p, name, attributes, start) ==
  LET q == allowWhitespace(p)
  IN  IF q.error.raised THEN q
      ELSE IF specialsHas(name) /\ Len(q.stack) = 1
        THEN tagSpecial(q, name, attributes, start)
      ELSE tagElement(q, name, attributes, start)

----------------------------------------------------------------------------
\* The document driver: the parser object and the state handlers it calls

Parser ==
  [template |-> template, index |-> index, stack |-> stack, nodes |-> nodes,
   metaTags |-> metaTagsSeen, js |-> js, css |-> css, error |-> error,
   readerCalls |-> readerCalls]

\* the parser with more template to read
Feed(src) == [Parser EXCEPT !.template = @ \o src]

\* the locals of the call of tag that is running, if one is
Idle ==
  [pc |-> "idle", name |-> <<>>, start |-> 0,
   entry |-> [template |-> <<>>, index |-> 0, stack |-> <<1>>,
              nodes |-> <<Node("Fragment", Undefined, NoEnd, NoEnd, <<>>, <<>>)>>,
              metaTags |-> {}, js |-> NoBlock, css |-> NoBlock, error |-> NoError,
              readerCalls |-> [js |-> 0, css |-> 0]],
   attributes |-> <<>>, uniqueNames |-> {}, iterationStart |-> 0,
   attributeName |-> <<>>, quoteMark |-> "", currentChunk |-> TextChunk(0),
   chunks |-> <<>>]

\* the parser object becomes p in the middle of a call
Moves(p) ==
  /\ template' = p.template
  /\ index' = p.index
  /\ stack' = p.stack
  /\ nodes' = p.nodes
  /\ metaTagsSeen' = p.metaTags
  /\ js' = p.js
  /\ css' = p.css
  /\ error' = p.error
  /\ readerCalls' = p.readerCalls

Becomes(p) ==
  /\ template' = p.template
  /\ index' = p.index
  /\ stack' = p.stack
  /\ nodes' = p.nodes
  /\ metaTagsSeen' = p.metaTags
  /\ js' = p.js
  /\ css' = p.css
  /\ error' = p.error
  /\ readerCalls' = p.readerCalls
  /\ dispatched' = dispatched + 1
  /\ loop' = loop

Running(max) == ~error.raised /\ dispatched < max

\* what the driver reads next: more template once the cursor is at its end,
\* and otherwise what the last handler left unread
Pending(sources) == IF index = Len(template) THEN sources ELSE {<<>>}

\* the driver calls tag at a "<", the mustache handler at "{{", else text
AtTag(p) == match(p, <<"<">>)
AtMustache(p) == match(p, <<"{", "{">>)
AtText(p) == p.index < Len(p.template) /\ ~AtTag(p) /\ ~AtMustache(p)

\* the text handler: a Text node with the characters up to the next tag
text(p) ==
  LET e == scanUntil(p.template, p.index, {"<"})
      id == Len(p.nodes) + 1
  IN  pushChild(
        [p EXCEPT !.index = e,
                  !.nodes = Append(@, Node("Text", Undefined, p.index, e,
                                           decodeCharacterReferences(
                                             SubSeq(p.template, p.index + 1, e)),
                                           <<>>))],
        current(p), id)

\* the mustache handler opening an if-block or an each-block
blockOpen(p, type) ==
  LET id == Len(p.nodes) + 1
      q == pushChild(
             [p EXCEPT !.index = Len(p.template),
                       !.nodes = Append(@, Node(type, Undefined, p.index, NoEnd,
                                                <<>>, <<>>))],
             current(p), id)
  IN  [q EXCEPT !.stack = Append(@, id)]

\* the mustache handler closing the block on top of the stack
blockClose(p, type) ==
  LET block == current(p)
      q == [p EXCEPT !.index = Len(p.template)]
  IN  IF p.nodes[block].type # type
        THEN Error(p, "Unexpected block closing tag", p.index)
        ELSE stackPop([q EXCEPT !.nodes[block].end = q.index])

IfOpen == <<"{", "{", "#", "i", "f", " ", "x", "}", "}">>
IfClose == <<"{", "{", "/", "i", "f", "}", "}">>
EachOpen == <<"{", "{", "#", "e", "a", "c", "h", " ", "x", " ", "a", "s", " ", "y", "}", "}">>
EachClose == <<"{", "{", "/", "e", "a", "c", "h", "}", "}">>

Init ==
  /\ template = <<>>
  /\ index = 0
  /\ stack = <<1>>
  /\ nodes = <<Node("Fragment", Undefined, NoEnd, NoEnd, <<>>, <<>>)>>
  /\ metaTagsSeen = {}
  /\ js = NoBlock
  /\ css = NoBlock
  /\ error = NoError
  /\ readerCalls = [js |-> 0, css |-> 0]
  /\ dispatched = 0
  /\ loop = Idle

TagOf(sources, max) ==
  /\ Running(max)
  /\ \E src \in Pending(sources) :
       AtTag(Feed(src)) /\ Becomes(tag(Feed(src)))

TextOf(sources, max) ==
  /\ Running(max)
  /\ \E src \in Pending(sources) :
       AtText(Feed(src)) /\ Becomes(text(Feed(src)))

BlockOpenOf(type, src, max) ==
  /\ Running(max)
  /\ index = Len(template)
  /\ Becomes(blockOpen(Feed(src), type))

BlockCloseOf(type, src, max) ==
  /\ Running(max)
  /\ index = Len(template)
  /\ Becomes(blockClose(Feed(src), type))

----------------------------------------------------------------------------
\* Spec: templates of elements, text, comments and blocks

\* the tags of the templates
TagSources ==
  { <<"<", "d", "i", "v", ">">>,
    <<"<", "/", "d", "i", "v", ">">>,
    <<"<", "p", ">">>,
    <<"<", "/", "p", ">">>,
    <<"<", "l", "i", ">">>,
    <<"<", "t", "r", ">">>,
    <<"<", "t", "d", ">">>,
    <<"<", "b", "r", ">">>,
    <<"<", "/", "b", "r", ">">>,
    <<"<", "!", "-", "-", "c", "-", "-", ">">>,
    <<"<", "s", "c", "r", "i", "p", "t", ">", "x", "<", "/", "s", "c", "r", "i", "p", "t", ">">> }

TextSources ==
  { <<"h", "i">>, <<" ">>, <<" ", "h", "i", " ">> }

Tag == TagOf(TagSources, MaxDispatch)
Text == TextOf(TextSources, MaxDispatch)
IfBlockOpen == BlockOpenOf("IfBlock", IfOpen, MaxDispatch)
EachBlockOpen == BlockOpenOf("EachBlock", EachOpen, MaxDispatch)
IfBlockClose == BlockCloseOf("IfBlock", IfClose, MaxDispatch)
EachBlockClose == BlockCloseOf("EachBlock", EachClose, MaxDispatch)

Next ==
  \/ Tag
  \/ Text
  \/ IfBlockOpen
  \/ EachBlockOpen
  \/ IfBlockClose
  \/ EachBlockClose

Spec == Init /\ [][Next]_vars

----------------------------------------------------------------------------
\* SpecMeta: templates with the meta-tag and the special blocks

\* the tags of the templates
MetaTagSources ==
  { <<"<", ":", "W", "i", "n", "d", "o", "w", ">">>,
    <<"<", ":", "W", "i", "n", "d", "o", "w", "/", ">">>,
    <<"<", "/", ":", "W", "i", "n", "d", "o", "w", ">">>,
    <<"<", "/", ":", "W", "i", "n", "d", "o", "w", " ", "x", ">">>,
    <<"<", "d", "i", "v", ">">>,
    <<"<", "/", "d", "i", "v", ">">>,
    <<"<", "p", ">">>,
    <<"<", "s", "c", "r", "i", "p", "t", ">", "x", "<", "/", "s", "c", "r", "i", "p", "t", ">">>,
    <<"<", "s", "t", "y", "l", "e", ">", "<", "/", "s", "t", "y", "l", "e", ">">>,
    <<"<", ":", "S", "e", "l", "f", "/", ">">>,
    <<"<", "!", "-", "-", "c", "-", "-", ">">> }

MetaTextSources == { <<"h", "i">> }

MetaTag == TagOf(MetaTagSources, MaxMetaDispatch)
MetaText == TextOf(MetaTextSources, MaxMetaDispatch)
MetaBlockOpen == BlockOpenOf("IfBlock", IfOpen, MaxMetaDispatch)
MetaBlockClose == BlockCloseOf("IfBlock", IfClose, MaxMetaDispatch)

NextMeta == MetaTag \/ MetaText \/ MetaBlockOpen \/ MetaBlockClose

SpecMeta == Init /\ [][NextMeta]_vars

----------------------------------------------------------------------------
\* SpecAttr: tags with attributes

\* the tags of the templates
AttrTagSources ==
  { <<"<", "a", " ", "b", " ", "c", ">">>,
    <<"<", "a", " ", "b", " ", "b", ">">>,
    <<"<", "a", " ", ":", "b", " ", "b", ">">>,
    <<"<", "a", " ", "b", " ", ":", "b", ">">>,
    <<"<", "a", " ", ":", "b", " ", ":", "b", ">">>,
    <<"<", "a", " ", "b", "=", "'", "c", "'", " ", "r", "e", "f", ":", "b", "/", ">">>,
    <<"<", "a", " ", "b", "=", "\"", "{", "{", "b", "}", "}", "\"", " ", "b", ">">>,
    <<"<", "a", " ", "b", "=", "c", " ", "o", "n", ":", "b", "=", "\"", "d", "\"", ">">>,
    <<"<", "a", " ", "b", "i", "n", "d", ":", "b", " ", "b", "/", ">">>,
    <<"<", "/", "a", ">">>,
    <<"<", "b", "r", " ", "=", ">">>,
    <<"<", "a", " ", "b", "=", "{", "{", "c", "}", "}", "d", ">">>,
    <<"<", "a", " ", ":", "b", ">">>,
    <<"<", "a", " ", "b", "=", "\"", "{", "{", "b", "}", "}", "\"", ">">>,
    <<"<", "a", " ", ":", "f", "o", "o", "/", ">">>,
    <<"<", "a", " ", "f", "o", "o", "=", "\"", "{", "{", "f", "o", "o", "}", "}", "\"", "/", ">">> }

AttrTag == TagOf(AttrTagSources, MaxAttrDispatch)

NextAttr == AttrTag

SpecAttr == Init /\ [][NextAttr]_vars

----------------------------------------------------------------------------
\* SpecValue: one tag <a b=VALUE>, the value made of literal runs, character
\* references and {{expression}} segments, quoted either way or unquoted

MaxSegments == 3

Segments ==
  { <<"c">>,
    <<"&", "l", "t", ";">>,
    <<"{", "{", "x", "}", "}">>,
    <<"{", "{", " ", "y", " ", "}", "}">> }

Quotes == {<<"'">>, <<"\"">>, <<>>}

RECURSIVE Concat(_)
Concat(seqs) == IF seqs = <<>> THEN <<>> ELSE Head(seqs) \o Concat(Tail(seqs))

Values == {Concat(s) : s \in UNION {[1..k -> Segments] : k \in 0..MaxSegments}}

ValueTagSources ==
  {<<"<", "a", " ", "b", "=">> \o q \o v \o q \o <<">">> : q \in Quotes, v \in Values}

\* the parser constructed with the whole template
InitValue ==
  /\ template \in ValueTagSources
  /\ index = 0
  /\ stack = <<1>>
  /\ nodes = <<Node("Fragment", Undefined, NoEnd, NoEnd, <<>>, <<>>)>>
  /\ metaTagsSeen = {}
  /\ js = NoBlock
  /\ css = NoBlock
  /\ error = NoError
  /\ readerCalls = [js |-> 0, css |-> 0]
  /\ dispatched = 0
  /\ loop = Idle

ValueTag == ~error.raised /\ AtTag(Parser) /\ Becomes(tag(Parser))

NextValue == ValueTag

SpecValue == InitValue /\ [][NextValue]_vars

----------------------------------------------------------------------------
\* SpecSelf: templates of self-references, elements and blocks

SelfTagSources ==
  { <<"<", ":", "S", "e", "l", "f", "/", ">">>,
    <<"<", ":", "S", "e", "l", "f", ">">>,
    <<"<", "/", ":", "S", "e", "l", "f", ">">>,
    <<"<", "d", "i", "v", ">">>,
    <<"<", "/", "d", "i", "v", ">">> }

SelfTag == TagOf(SelfTagSources, MaxSelfDispatch)
SelfIfBlockOpen == BlockOpenOf("IfBlock", IfOpen, MaxSelfDispatch)
SelfEachBlockOpen == BlockOpenOf("EachBlock", EachOpen, MaxSelfDispatch)
SelfIfBlockClose == BlockCloseOf("IfBlock", IfClose, MaxSelfDispatch)
SelfEachBlockClose == BlockCloseOf("EachBlock", EachClose, MaxSelfDispatch)

NextSelf ==
  \/ SelfTag
  \/ SelfIfBlockOpen
  \/ SelfEachBlockOpen
  \/ SelfIfBlockClose
  \/ SelfEachBlockClose

SpecSelf == Init /\ [][NextSelf]_vars

----------------------------------------------------------------------------
\* SpecLoop: the calls of tag run one loop iteration at a time

LoopTagSources ==
  { <<"<", "d", "i", "v", ">">>,
    <<"<", "p", ">">>,
    <<"<", "/", "d", "i", "v", ">">>,
    <<"<", "/", "p", ">">>,
    <<"<", "!", "-", "-", "c", "-", "-", ">">>,
    <<"<", "a", " ", "b", "=", "\"", "c", "{", "{", "x", "}", "}", "\"", " ", ":", "d", " ", "e", "=", "f", "/", ">">>,
    <<"<", "a", " ", "b", " ", "b", ">">>,
    <<"<", "a", " ", "b", "=", "'", "{", "{", "x">> }

\* the driver calls tag, which runs up to its first loop
LoopTagBegin ==
  /\ Running(MaxLoopDispatch)
  /\ loop.pc = "idle"
  /\ \E src \in Pending(LoopTagSources) :
       /\ AtTag(Feed(src))
       /\ LET b == tagBegin(Feed(src))
          IN  IF b.pc = "idle"
                THEN Becomes(tag(Feed(src)))
                ELSE /\ Moves(b.p)
                     /\ dispatched' = dispatched + 1
                     /\ loop' = [Idle EXCEPT !.pc = b.pc, !.name = b.name,
                                             !.start = b.start, !.entry = Feed(src),
                                             !.iterationStart = b.p.index]

\* one test of the loop of the closing-tag walk
WalkStep ==
  /\ loop.pc = "walk"
  /\ \E s \in {closeWalkStep(Parser, loop.name, loop.start)} :
       /\ Moves(s.p)
       /\ loop' = IF s.again THEN loop ELSE Idle
       /\ UNCHANGED dispatched

\* one call of readAttribute from the attribute loop, up to the loop of
\* readAttributeValue if it reaches it, and else to its return
AttributeStep ==
  /\ loop.pc = "attributes"
  /\ UNCHANGED dispatched
  /\ IF readsValue(Parser, loop.uniqueNames)
       THEN \E b \in {readValueBegin(Parser)} :
              /\ Moves(b.p)
              /\ loop' = [loop EXCEPT !.pc = "value",
                                      !.iterationStart = index,
                                      !.attributeName = b.name,
                                      !.quoteMark = b.quoteMark,
                                      !.currentChunk = TextChunk(b.p.index),
                                      !.chunks = <<>>]
       ELSE \E r \in {readAttribute(Parser, loop.uniqueNames)} :
              IF r.found
                THEN /\ \E q \in {allowWhitespace(r.p)} : Moves(q)
                     /\ loop' = [loop EXCEPT !.attributes = Append(@, r.attribute),
                                             !.uniqueNames = r.uniqueNames,
                                             !.iterationStart = index]
                ELSE /\ \E q \in {tagOpenEnd(r.p, loop.name, loop.attributes,
                                              loop.start)} : Moves(q)
                     /\ loop' = Idle

\* one test of the loop of readAttributeValue; on its return readAttribute
\* returns the attribute and the attribute loop goes on
ValueStep ==
  /\ loop.pc = "value"
  /\ UNCHANGED dispatched
  /\ \E s \in {readAttributeValueStep(Parser, loop.quoteMark, loop.currentChunk,
                                        loop.chunks)} :
         IF s.again
           THEN /\ Moves(s.p)
                /\ loop' = [loop EXCEPT !.currentChunk = s.currentChunk,
                                        !.chunks = s.chunks]
         ELSE IF s.p.error.raised
           THEN Moves(s.p) /\ loop' = Idle
         ELSE /\ \E q \in {allowWhitespace(s.p)} : Moves(q)
              /\ loop' = [loop EXCEPT
                            !.pc = "attributes",
                            !.attributes =
                              Append(@, Attribute(loop.iterationStart, s.p.index,
                                                  "Attribute", loop.attributeName,
                                                  ValueChunks(s.chunks))),
                            !.uniqueNames = @ \cup {loop.attributeName}]

LoopIfBlockOpen ==
  loop.pc = "idle" /\ BlockOpenOf("IfBlock", IfOpen, MaxLoopDispatch)

NextLoop ==
  \/ LoopTagBegin
  \/ WalkStep
  \/ AttributeStep
  \/ ValueStep
  \/ LoopIfBlockOpen

\* a call that is running runs on
SpecLoop ==
  /\ Init
  /\ [][NextLoop]_vars
  /\ WF_vars(WalkStep)
  /\ WF_vars(AttributeStep)
  /\ WF_vars(ValueStep)

----------------------------------------------------------------------------
\* Properties

NodeIds == 1..Len(nodes)
Elements == {n \in NodeIds : nodes[n].type = "Element"}
OnStack(n) == \E i \in 1..Len(stack) : stack[i] = n
ChildrenOf(n) == {nodes[n].children[i] : i \in 1..Len(nodes[n].children)}
Named(name) == {n \in Elements : nodes[n].name = name}

Window == <<":", "W", "i", "n", "d", "o", "w">>
Div == <<"d", "i", "v">>
Li == <<"l", "i">>
Br == <<"b", "r">>

\* the template holds str at offset i
HasAt(t, i, str) == i + Len(str) <= Len(t) /\ SubSeq(t, i + 1, i + Len(str)) = str

\* this step is a call of tag on the closing tag </name>
ClosingTagStep(name) ==
  /\ ~error.raised
  /\ dispatched' = dispatched + 1
  /\ HasAt(template', index, <<"<", "/">> \o name \o <<">">>)

\* this step is a call of tag on an opening tag of that name: <name> <name/> <name ...
OpeningTagStep(name) ==
  /\ ~error.raised
  /\ dispatched' = dispatched + 1
  /\ \E stop \in Whitespace \cup {"/", ">"} :
       HasAt(template', index, <<"<">> \o name \o <<stop>>)

\* the names of the elements on the stack
StackNames == {nodes[stack[i]].name : i \in 1..Len(stack)} \ {Undefined}

\* the position on the stack of the nearest entry of that name
Nearest(name) ==
  CHOOSE i \in 1..Len(stack) :
    /\ nodes[stack[i]].name = name
    /\ \A j \in (i + 1)..Len(stack) : nodes[stack[j]].name # name

\* the closing tag </name> has an open element to close, with only elements above
Closable(name) ==
  /\ name \in StackNames
  /\ \A j \in (Nearest(name) + 1)..Len(stack) : nodes[stack[j]].type = "Element"

\* C1: in every reachable state, error states included, the open-element stack
\* is non-empty and its bottom entry is the synthetic root fragment
C1_RootNeverPopped ==
  /\ Len(stack) >= 1
  /\ stack[1] = 1
  /\ nodes[1].type = "Fragment"
  /\ \A i \in 2..Len(stack) : stack[i] # 1

\* the closing-tag walk has popped elements and stopped at the root
C1_Witness ==
  /\ error.raised
  /\ error.message = "attempted to close an element that was not open"
  /\ stack = <<1>>
  /\ \E n \in Elements : nodes[n].end = error.index

\* the effect of an accepted closing tag </name> of an open element
ClosesDownTo(name) ==
  /\ ~error'.raised
  /\ stack' = SubSeq(stack, 1, Nearest(name) - 1)
  /\ \A j \in Nearest(name)..Len(stack) : nodes'[stack[j]].end # NoEnd
  /\ \A j \in 1..(Nearest(name) - 1) : nodes'[stack[j]].end = nodes[stack[j]].end

DivPHiDiv ==
  <<"<", "d", "i", "v", ">", "<", "p", ">", "h", "i", "<", "/", "d", "i", "v", ">">>

\* <div><p>hi</div>: div is closed, its only child is p, whose only child is hi
DivPHiDivParsed ==
  /\ template = DivPHiDiv
  /\ index = Len(template)
  /\ ~error.raised
  /\ stack = <<1>>
  /\ \E d \in Named(Div), q \in Named(<<"p">>), h \in NodeIds :
       /\ nodes[1].children = <<d>>
       /\ nodes[d].children = <<q>>
       /\ nodes[d].end = Len(template)
       /\ nodes[q].children = <<h>>
       /\ nodes[h].type = "Text"
       /\ nodes[h].data = <<"h", "i">>

\* C2 as stated: a closing tag </x>, x not void, whose nearest open x has only
\* elements above it, succeeds and pops exactly x and the elements above it
C2_Original ==
  [][\A x \in StackNames :
       (ClosingTagStep(x) /\ ~isVoidElementName(x) /\ Closable(x))
         => ClosesDownTo(x)]_vars

\* C2 amended: the same for every x that is neither void nor a meta-tag name;
\* and <div><p>hi</div> gives div with the one child p with the one child hi
C2_ClosingTagPops ==
  [][/\ \A x \in StackNames :
          (ClosingTagStep(x) /\ ~isVoidElementName(x) /\ x \notin metaTags
             /\ Closable(x))
            => ClosesDownTo(x)
     /\ (template' = DivPHiDiv /\ index' = Len(template')) => DivPHiDivParsed']_vars

C2_Witness == DivPHiDivParsed

\* the element on top of the stack, and what may not be nested inside it
Top == stack[Len(stack)]
Disallowed ==
  IF nodes[Top].type = "Element" /\ disallowedContentsHas(nodes[Top].name)
    THEN disallowedContentsGet(nodes[Top].name)
    ELSE {}

\* C3: an accepted opening tag <y> met while the top of the stack is an element
\* x that disallows y closes and pops x, and the new element y becomes the next
\* child of x's parent, not a child of x
C3_ImpliedCloseMakesSibling ==
  [][\A y \in Disallowed :
       (OpeningTagStep(y) /\ ~error'.raised)
         => LET x == Top
                parent == stack[Len(stack) - 1]
                element == Len(nodes) + 1
            IN  /\ \A i \in 1..Len(stack') : stack'[i] # x
                /\ nodes'[x].end = index
                /\ Len(nodes') = element
                /\ nodes'[element].type = "Element"
                /\ nodes'[element].name = y
                /\ x \in ChildrenOf(parent)
                /\ nodes'[parent].children = Append(nodes[parent].children, element)
                /\ \A i \in 1..Len(nodes'[x].children) :
                     nodes'[x].children[i] # element]_vars

\* <li>hi<li>hi: two sibling li elements, each with its own text
C3_Witness ==
  /\ ~error.raised
  /\ \E a, b \in Named(Li), g, h \in NodeIds :
       /\ nodes[1].children = <<a, b>>
       /\ nodes[a].end # NoEnd
       /\ nodes[a].children = <<g>>
       /\ nodes[b].children = <<h>>
       /\ nodes[g].type = "Text"
       /\ nodes[h].type = "Text"
       /\ stack = <<1, b>>

VoidElements == {n \in Elements : isVoidElementName(nodes[n].name)}

C4_NoVoidOnStack ==
  /\ \A i \in 1..Len(stack) : ~isVoidElementName(nodes[stack[i]].name)
  /\ \A n \in VoidElements : nodes[n].children = <<>>
  /\ ~error.raised => \A n \in VoidElements : nodes[n].end # NoEnd

C4_VoidClosingTagRaises ==
  \A v \in voidElementNames :
    ClosingTagStep(v) => error'.raised /\ stack' = stack /\ nodes' = nodes

\* C4: no entry of the stack has a void-element name, a void element has no
\* children and, once its tag is accepted, has its end set; a closing tag with
\* a void name raises an error and pops nothing
C4_VoidElements == []C4_NoVoidOnStack /\ [][C4_VoidClosingTagRaises]_vars

\* a void element followed by text: the text is its sibling
C4_Witness ==
  \E n \in Named(Br), m \in NodeIds, parent \in NodeIds :
    /\ m > n
    /\ nodes[m].type = "Text"
    /\ {n, m} \subseteq ChildrenOf(parent)
    /\ nodes[n].end # NoEnd

\* C5: in every state without an error, every element that has been closed has
\* no leading whitespace in a first Text child and no trailing whitespace in a
\* last Text child
C5_ClosedElementsStripped ==
  ~error.raised =>
    \A n \in Elements :
      (nodes[n].end # NoEnd /\ Len(nodes[n].children) > 0)
        => LET first == nodes[nodes[n].children[1]]
               last == nodes[nodes[n].children[Len(nodes[n].children)]]
           IN  /\ first.type = "Text"
                    => first.data # <<>> /\ first.data[1] \notin Whitespace
               /\ last.type = "Text"
                    => last.data # <<>> /\ last.data[Len(last.data)] \notin Whitespace

\* C6: the Attribute records of every element of an accepted tag have pairwise
\* distinct names
C6_AttributeNamesDistinct ==
  ~error.raised =>
    \A n \in Elements :
      \A i, j \in 1..Len(nodes[n].attributes) :
        (/\ i # j
         /\ nodes[n].attributes[i].type = "Attribute"
         /\ nodes[n].attributes[j].type = "Attribute")
          => nodes[n].attributes[i].name # nodes[n].attributes[j].name

C7_SpecialStored ==
  \A s \in specials :
    LET before == IF s.property = "js" THEN js ELSE css
        after == IF s.property = "js" THEN js' ELSE css'
    IN  (/\ OpeningTagStep(s.name)
         /\ stack = <<1>>
         /\ ~before.present
         /\ ~error'.raised)
          => /\ readerCalls'[s.property] = readerCalls[s.property] + 1
             /\ after.present
             /\ after.start = index
             /\ nodes' = nodes
             /\ stack' = stack

C7_SlotWrittenOnce ==
  /\ js.present => js' = js
  /\ css.present => css' = css
  /\ readerCalls'["js"] <= 1
  /\ readerCalls'["css"] <= 1

\* C7: an accepted top-level <script> or <style> whose slot is empty invokes the
\* reader once, stores its result, creates no node and leaves the stack alone;
\* a slot that holds a block is never written again
C7_SpecialBlocks == [][C7_SpecialStored /\ C7_SlotWrittenOnce]_vars

\* both blocks read at the top level of a template that also has an element
C7_Witness ==
  /\ ~error.raised
  /\ js.present
  /\ css.present
  /\ readerCalls = [js |-> 1, css |-> 1]
  /\ stack = <<1>>
  /\ Elements # {}

DuplicateSpecial ==
  {"You can only have one top-level <script> tag per component",
   "You can only have one top-level <style> tag per component"}

\* C8 as stated: the duplicate-block error is reported at the position of the
\* first block of that kind
C8_Original ==
  (error.raised /\ error.message \in DuplicateSpecial)
    => error.index =
         IF error.message = "You can only have one top-level <script> tag per component"
           THEN js.start ELSE css.start

\* C8 amended: a second top-level block of a kind raises the duplicate-block
\* error, reported at the offset of the "<" of the second tag, which lies after
\* the start of the first block
C8_DuplicateReportedAtSecond ==
  [][\A s \in specials :
       LET slot == IF s.property = "js" THEN js ELSE css
       IN  (OpeningTagStep(s.name) /\ stack = <<1>> /\ slot.present)
             => /\ error'.raised
                /\ error'.message \in DuplicateSpecial
                /\ error'.index = index
                /\ slot.start < index
                /\ js' = js
                /\ css' = css]_vars

C8_Witness ==
  /\ error.raised
  /\ error.message = "You can only have one top-level <script> tag per component"
  /\ js.present

C9_MetaTagRaises ==
  (OpeningTagStep(Window) \/ ClosingTagStep(Window))
    => /\ Window \in metaTagsSeen => error'.raised
       /\ Len(stack) > 1 => error'.raised

C9_OneWindow ==
  /\ Cardinality(Named(Window)) <= 1
  /\ Named(Window) \subseteq ChildrenOf(1)

\* C9: a :Window tag raises an error if the name is already registered, and if
\* the stack is deeper than the root; so there is at most one :Window element
\* and it is a child of the root
C9_SingletonMetaTag == []C9_OneWindow /\ [][C9_MetaTagRaises]_vars

\* a second :Window tag rejected after the first made an element
C9_Witness ==
  /\ Named(Window) # {}
  /\ error.raised
  /\ error.message = "A component can only have one <:Window> tag"

\* C10 as stated: without an error, a :Window element has no children
C10_Original ==
  ~error.raised => \A w \in Named(Window) : nodes[w].children = <<>>

\* C10 amended: without an error, a :Window element that has children is still
\* open, on the stack with its end unset; a closed one has none
C10_ClosedWindowHasNoChildren ==
  ~error.raised =>
    \A w \in Named(Window) :
      nodes[w].children # <<>> => OnStack(w) /\ nodes[w].end = NoEnd

\* an open :Window element that was given a child by an accepted tag
C10_Witness ==
  /\ ~error.raised
  /\ \E w \in Named(Window), n \in Elements : nodes[w].children = <<n>>

\* the attribute records of all elements
AttributeRecords ==
  UNION {{nodes[n].attributes[i] : i \in 1..Len(nodes[n].attributes)} :
           n \in Elements}

\* the record was read from the token :name
FromShorthand(a) == HasAt(template, a.start, <<":">> \o a.name)

\* the record was read from the token name="{{name}}"
FromMustache(a) ==
  HasAt(template, a.start,
        a.name \o <<"=", "\"", "{", "{">> \o a.name \o <<"}", "}", "\"">>)

\* an Attribute whose value is one chunk of that type wrapping Identifier name
OneIdentifierChunk(a, type) ==
  /\ a.type = "Attribute"
  /\ ~a.value.isTrue
  /\ Len(a.value.chunks) = 1
  /\ a.value.chunks[1].type = type
  /\ a.value.chunks[1].expression.type = "Identifier"
  /\ a.value.chunks[1].expression.name = a.name

\* C11 as stated: :foo and foo="{{foo}}" both give an Attribute named foo
\* whose value is one MustacheTag chunk wrapping the identifier foo
C11_Original ==
  \A a \in AttributeRecords :
    (FromShorthand(a) \/ FromMustache(a)) => OneIdentifierChunk(a, "MustacheTag")

\* C11 amended: both give an Attribute named foo whose value is one chunk
\* wrapping the identifier foo; the chunk of foo="{{foo}}" has type MustacheTag
\* and the chunk of :foo has type AttributeShorthand
C11_ShorthandChunk ==
  \A a \in AttributeRecords :
    /\ FromShorthand(a) => OneIdentifierChunk(a, "AttributeShorthand")
    /\ FromMustache(a) => OneIdentifierChunk(a, "MustacheTag")

\* both forms read for the same identifier
C11_Witness ==
  \E a, b \in AttributeRecords :
    /\ FromShorthand(a)
    /\ FromMustache(b)
    /\ a.name = <<"f", "o", "o">>
    /\ b.name = a.name

\* this step is a call of tag
TagStep ==
  /\ ~error.raised
  /\ dispatched' = dispatched + 1
  /\ HasAt(template', index, <<"<">>)

\* the elements this step pops
PoppedElements ==
  {x \in Elements : OnStack(x) /\ \A i \in 1..Len(stack') : stack'[i] # x}

\* where the cursor is when this call of tag pops: past the ">" of a closing
\* tag, and past the name of an opening tag and the whitespace after it
CursorAtPop ==
  IF HasAt(template', index, <<"<", "/">>)
    THEN index'
    ELSE scanWhile(template',
                   scanUntil(template', index + 1, Whitespace \cup {"/", ">"}),
                   Whitespace)

StackEndsUnset ==
  \A i \in 1..Len(stack) :
    nodes[stack[i]].type = "Element" => nodes[stack[i]].end = NoEnd

\* C12 as stated: an element on the stack has its end unset, and a popped
\* element has its end set to the offset of the cursor at the pop
C12_Original ==
  /\ []StackEndsUnset
  /\ [][TagStep => \A x \in PoppedElements : nodes'[x].end = CursorAtPop]_vars

\* C12 amended: an element on the stack has its end unset; the element matched
\* by an accepted closing tag has its end set to the offset past the ">" of
\* that tag; an element auto-closed by the closing-tag walk or closed by the
\* disallowed-contents rule has its end set to the offset of the "<" of the tag
\* that closes it
C12_EndOfPopped ==
  /\ []StackEndsUnset
  /\ [][TagStep =>
          \A x \in PoppedElements :
            nodes'[x].end =
              IF /\ HasAt(template', index, <<"<", "/">>)
                 /\ ~error'.raised
                 /\ x = stack[Len(stack') + 1]
                THEN index'
                ELSE index]_vars

\* <div><p></div>: p ends where </div> starts and div ends past </div>
C12_Witness ==
  /\ ~error.raised
  /\ \E d \in Named(Div), q \in Named(<<"p">>) :
       /\ nodes[d].children = <<q>>
       /\ nodes[d].end = index
       /\ nodes[q].end # NoEnd
       /\ HasAt(template, nodes[q].end, <<"<", "/", "d", "i", "v", ">">>)
       /\ nodes[q].end + 6 = nodes[d].end

\* the names the closing tags of the sources carry
ClosingTagNames == {Window, Div, <<"p">>, <<"b", "r">>, SELF}

\* the step raises the error of the closing-tag walk at the "<" of the tag
NotOpenRaised ==
  /\ error'.raised
  /\ error'.message = "attempted to close an element that was not open"
  /\ error'.index = index

Quoted == template[6] \in {"'", "\""}
ValueStart == IF Quoted THEN 6 ELSE 5
ValueEnd == IF Quoted THEN Len(template) - 2 ELSE Len(template) - 1
Span(c) == SubSeq(template, c.start + 1, c.end)
Opens(s) == {i \in 0..(Len(s) - 2) : HasAt(s, i, <<"{", "{">>)}

\* the chunks cover the value text in source order, a MustacheTag chunk for
\* each expression and a Text chunk for each non-empty maximal literal run
ChunksOfValue(chunks) ==
  /\ IF chunks = <<>> THEN ValueStart = ValueEnd
     ELSE chunks[1].start = ValueStart /\ chunks[Len(chunks)].end = ValueEnd
  /\ \A i \in 1..(Len(chunks) - 1) :
       /\ chunks[i].end = chunks[i + 1].start
       /\ ~(chunks[i].type = "Text" /\ chunks[i + 1].type = "Text")
  /\ \A i \in 1..Len(chunks) :
       /\ chunks[i].start < chunks[i].end
       /\ chunks[i].type \in {"Text", "MustacheTag"}
       /\ chunks[i].type = "Text" =>
            /\ Opens(Span(chunks[i])) = {}
            /\ chunks[i].data = decodeCharacterReferences(Span(chunks[i]))
       /\ chunks[i].type = "MustacheTag" =>
            /\ Opens(Span(chunks[i])) = {0}
            /\ HasAt(template, chunks[i].end - 2, <<"}", "}">>)
            /\ chunks[i].expression.type = "Identifier"
            /\ chunks[i].expression.name \in {<<"x">>, <<"y">>}
            /\ HasAt(template, chunks[i].expression.start, chunks[i].expression.name)

\* C14: for every value made of literal runs and {{expression}} segments,
\* readAttributeValue returns the chunks in source order, one MustacheTag
\* chunk per expression, one Text chunk per non-empty maximal literal run, no
\* two Text chunks adjacent and none empty; "c" gives one Text chunk and
\* "{{x}}" one MustacheTag chunk
C14_ChunksInOrder ==
  dispatched = 1 =>
    /\ ~error.raised
    /\ \E n \in Named(<<"a">>) :
         LET chunks == nodes[n].attributes[1].value.chunks
             value == SubSeq(template, ValueStart + 1, ValueEnd)
         IN  /\ ~nodes[n].attributes[1].value.isTrue
             /\ ChunksOfValue(chunks)
             /\ value = <<"c">> =>
                  Len(chunks) = 1 /\ chunks[1].type = "Text" /\ chunks[1].data = <<"c">>
             /\ value = <<"{", "{", "x", "}", "}">> =>
                  /\ Len(chunks) = 1
                  /\ chunks[1].type = "MustacheTag"
                  /\ chunks[1].expression.name = <<"x">>

\* "c{{x}}&lt;" parsed: Text c, MustacheTag x, Text <
C14_Witness ==
  /\ dispatched = 1
  /\ SubSeq(template, ValueStart + 1, ValueEnd) =
       <<"c", "{", "{", "x", "}", "}", "&", "l", "t", ";">>
  /\ \E n \in Named(<<"a">>) :
       LET chunks == nodes[n].attributes[1].value.chunks
       IN  /\ Len(chunks) = 3
           /\ chunks[1].type = "Text" /\ chunks[1].data = <<"c">>
           /\ chunks[2].type = "MustacheTag" /\ chunks[2].expression.name = <<"x">>
           /\ chunks[3].type = "Text" /\ chunks[3].data = <<"<">>

SelfMessage == "<:Self> components can only exist inside if-blocks or each-blocks"

\* this step is a call of tag on a tag named :Self, the name k past the "<"
SelfTagStep(k) ==
  /\ TagStep
  /\ HasAt(template', index + k, SELF)
  /\ k = 2 <=> HasAt(template', index, <<"<", "/">>)

BlockOnStack ==
  \E i \in 1..Len(stack) : nodes[stack[i]].type \in {"IfBlock", "EachBlock"}

\* C15: readTagName accepts the name :Self if and only if an entry of the stack
\* is an if-block or an each-block; with no such entry it raises a SyntaxError
\* at the offset where the name starts
C15_SelfInsideBlocks ==
  [][\A k \in {1, 2} :
       SelfTagStep(k) =>
         IF BlockOnStack
           THEN /\ ~(error'.raised /\ error'.message = SelfMessage)
                /\ k = 1 =>
                     /\ ~error'.raised
                     /\ Len(nodes') = Len(nodes) + 1
                     /\ nodes'[Len(nodes')].type = "Element"
                     /\ nodes'[Len(nodes')].name = SELF
           ELSE /\ error'.raised
                /\ error'.message = SelfMessage
                /\ error'.index = index + k]_vars

\* a self-reference accepted as a child of an each-block, under an element
C15_Witness ==
  /\ ~error.raised
  /\ \E n \in Named(SELF), b \in NodeIds :
       /\ nodes[b].type = "EachBlock"
       /\ nodes[b].children = <<n>>
       /\ Div \in StackNames

Last(s) == s[Len(s)]
IsLastChild(ns, n, parent) ==
  ns[parent].children # <<>> /\ Last(ns[parent].children) = n

\* every element on the stack is the last child of the entry below it
StackOfLastChildren ==
  \A i \in 2..Len(stack) :
    nodes[stack[i]].type = "Element" => IsLastChild(nodes, stack[i], stack[i - 1])

\* C16: between calls of tag, each element on the stack is the last child of
\* the entry directly below it, and every node a call of tag appends (Element
\* or Comment) is appended to the children of the top of the stack: of the new
\* top if the node is not pushed, of the entry below it if it is
C16_AppendedToTop ==
  /\ []StackOfLastChildren
  /\ [][TagStep =>
          \A n \in (Len(nodes) + 1)..Len(nodes') :
            /\ nodes'[n].type \in {"Element", "Comment"}
            /\ IF Last(stack') = n
                 THEN IsLastChild(nodes', n, stack'[Len(stack') - 1])
                 ELSE IsLastChild(nodes', n, Last(stack'))
            /\ \A m \in 1..Len(nodes') :
                 \A i \in 1..Len(nodes'[m].children) :
                   nodes'[m].children[i] = n =>
                     i = Len(nodes'[m].children)
                       /\ m = (IF Last(stack') = n THEN stack'[Len(stack') - 1]
                               ELSE Last(stack'))]_vars

\* <br><div><p><!--c-->: div after br under the root, p under div, the
\* comment under p
C16_Witness ==
  /\ ~error.raised
  /\ Len(stack) = 3
  /\ nodes[stack[2]].name = Div
  /\ nodes[stack[3]].name = <<"p">>
  /\ Len(nodes[1].children) = 2
  /\ nodes[nodes[1].children[1]].name = Br
  /\ \E c \in NodeIds : nodes[c].type = "Comment" /\ nodes[stack[3]].children = <<c>>

\* C17: after any sequence of accepted tags, no Element named y is a direct
\* child of an Element named x with y among the disallowed contents of x
C17_NoDisallowedChild ==
  ~error.raised =>
    \A x \in Elements :
      \A i \in 1..Len(nodes[x].children) :
        LET y == nodes[x].children[i]
        IN  (nodes[y].type = "Element" /\ disallowedContentsHas(nodes[x].name))
              => nodes[y].name \notin disallowedContentsGet(nodes[x].name)

EndUnsetOnStack ==
  ~error.raised =>
    \A n \in Elements :
      /\ nodes[n].end = NoEnd <=> OnStack(n)
      /\ nodes[n].end # NoEnd => nodes[n].end > nodes[n].start

\* C18: between calls of tag, the end of an Element is unset if and only if
\* the element is on the stack; an end that is set is greater than the start
\* of the element and is never changed again
C18_EndSetOnce ==
  /\ []EndUnsetOnStack
  /\ [][\A n \in Elements :
          nodes[n].end # NoEnd => nodes'[n].end = nodes[n].end]_vars

\* <div><br></div><li>: br and div ended and off the stack, li open
C18_Witness ==
  /\ ~error.raised
  /\ \E d \in Named(Div), b \in Named(Br), l \in Named(Li) :
       /\ nodes[d].children = <<b>>
       /\ nodes[b].start < nodes[b].end
       /\ nodes[b].end < nodes[d].end
       /\ stack = <<1, l>>
       /\ nodes[l].end = NoEnd

\* this step is a call of tag on a closing tag named :Window
ClosingWindowStep ==
  /\ TagStep
  /\ \E stop \in {" ", ">"} :
       HasAt(template', index, <<"<", "/">> \o Window \o <<stop>>)

\* a :Window element that has ended was self-closing
WindowNeverClosed ==
  ~error.raised =>
    \A w \in Named(Window) :
      nodes[w].end # NoEnd => HasAt(template, nodes[w].end - 2, <<"/", ">">>)

\* C19: every closing tag named :Window raises a SyntaxError: the duplicate or
\* the cannot-have-children error if the name is registered, and otherwise the
\* error of the nesting check, of the missing ">" or of the stack walk; so no
\* <:Window></:Window> pair is accepted
C19_ClosingWindowRaises ==
  /\ []WindowNeverClosed
  /\ [][ClosingWindowStep =>
          /\ error'.raised
          /\ IF Window \in metaTagsSeen
               THEN error'.message \in
                      {"A component can only have one <:Window> tag",
                       "<:Window> cannot have children"}
               ELSE error'.message \in
                      {"<:Window> tags cannot be inside elements or blocks",
                       "Expected '>'",
                       "attempted to close an element that was not open"}]_vars

\* <:Window></:Window>: the closing tag met with the childless :Window open
C19_Witness ==
  /\ error.raised
  /\ error.message = "A component can only have one <:Window> tag"
  /\ HasAt(template, error.index, <<"<", "/">> \o Window \o <<">">>)
  /\ \E w \in Named(Window) :
       stack = <<1, w>> /\ nodes[w].children = <<>> /\ nodes[w].end = NoEnd

InLoop == loop.pc # "idle"

\* the call that was running has ended, with the result of tag
Returns == InLoop /\ loop'.pc = "idle" /\ Parser' = tag(loop.entry)

\* C20: every call of tag ends, returning or raising; the closing-tag walk
\* pops one entry in each iteration and never the root, each iteration of the
\* attribute loop consumes at least one character, and each iteration of the
\* loop of readAttributeValue advances the cursor unless it returns or raises
C20_TagTerminates ==
  /\ InLoop ~> ~InLoop
  /\ [](loop.pc = "walk" =>
          Len(stack) >= 1 /\ Len(stack) <= Len(loop.entry.stack))
  /\ [][/\ (InLoop /\ loop'.pc = "idle") => Returns
        /\ (loop.pc = "walk" /\ loop'.pc = "walk") =>
             /\ Len(stack') = Len(stack) - 1
             /\ Len(loop.entry.stack) - Len(stack') <= Len(loop.entry.stack) - 1
        /\ (InLoop /\ loop'.pc = "attributes") => index' > loop'.iterationStart
        /\ (loop.pc = "value" /\ loop'.pc = "value") => index' > index]_vars

\* <div><p> and then </div>: the walk has popped p and is at div
C20_WalkWitness ==
  /\ loop.pc = "walk"
  /\ Len(loop.entry.stack) = 3
  /\ Len(stack) = 2
  /\ nodes[Top].name = loop.name

\* the attribute loop of <a b="c{{x}}" :d e=f/> after its three iterations,
\* the first and the last through the loop of readAttributeValue
C20_Witness ==
  /\ loop.pc = "attributes"
  /\ Len(loop.attributes) = 3
  /\ Len(loop.attributes[1].value.chunks) = 2
  /\ loop.uniqueNames = {<<"b">>, <<":", "d">>, <<"e">>}
  /\ HasAt(template, index, <<"/", ">">>)

====
